---- MODULE Spec2Model ----
(***************************************************************************)
(* QuickSignPDF (src/src/quicksignpdf/app.py): the PDF viewer's selection  *)
(* and signature-preview controller (PdfViewer), the signature dialog      *)
(* (SignaturePad) as far as the viewer drives it, and crop_alpha_bbox.     *)
(*                                                                         *)
(* Numbers.  Qt's QRectF / QPointF hold floating-point values.  Here every *)
(* canvas coordinate is an exact rational written as an integer number of  *)
(* 1/U pixel (U is a power of two, so halving for the centring offset and  *)
(* the wheel factors 1/4 and 7/4 stay exact for MaxZoom wheel steps).   *)
(* The render scale and the page-point values are rationals <<num, den>>.  *)
(***************************************************************************)
EXTENDS Integers, Sequences, FiniteSets, TLC

(***************************************************************************)
(* Bounds of the model.                                                    *)
(***************************************************************************)
MaxZoom == 1
MaxGest == 1
\* _stroke_add calls and strokes begun per signature dialog
MaxSamples == 3
MaxStrokes == 2
\* milliseconds between two samples, padding of a crop
MaxElapsed == 6
MaxPadding == 2
\* significant bits of a floating-point number (53 in the program)
Precision == 6

\* sub-pixel units per pixel: one wheel step divides by at most 8
U == 2 * (8 ^ MaxZoom)

(***************************************************************************)
(* Program constants.                                                      *)
(***************************************************************************)
MinW == 40
MinH == 20
Tol == 12
MinCanvas == 5
CropPadding == 16
Dpi == 300
PadMinW == 600
PadMaxW == 3000
PadMinH == 300
PadMaxH == 2000

PenWidth == 7
MinSegFloor == 6
MaWindow == 8
MinSteps == 16

\* wheel factor 1.0 + 0.0015 * delta, as the rational (2000 + 3*delta) / 2000
WheelNum(delta) == 2000 + 3 * delta
WheelDen == 2000

(***************************************************************************)
(* The environment: the document, the canvas sizes the layout gives the    *)
(* label, the pointer positions, the wheel deltas, the ink of a stroke.    *)
(***************************************************************************)
\* page sizes in points of the opened document (page.rect.width, height)
PagePt == << [w |-> 60, h |-> 40], [w |-> 60, h |-> 40] >>
NumPages == Len(PagePt)

\* contentsRect() sizes of the canvas label, in pixels
InitCanvas == [w |-> 121, h |-> 90]
Canvases == { [w |-> 121, h |-> 90], [w |-> 4, h |-> 4] }

\* event positions in canvas-local pixels (ev.position() - contentsRect origin):
\* <<-1, 6>> is on the frame line of the label, <<50, 18>> is 12 pixels from
\* two corners of the selections that end at <<50, 30>>, <<200, 200>> is
\* beyond the widget (the mouse is grabbed while a button is held)
PressPts == { <<-1, 6>>, <<6, 6>>, <<50, 18>>, <<50, 30>> }
MovePts == { <<50, 30>>, <<100, 6>>, <<200, 200>> }
WheelPts == { <<50, 30>>, <<100, 6>> }
WheelDeltas == {-500, 500}

\* alpha > 0 pixels one stroke leaves in the drawing buffer (buffer coordinates)
Inks == { { <<100, 120>>, <<300, 180>> } }

\* size of the SignatureCanvas widget inside the signature dialog, in pixels
\* (at least 900 x 300)
PadWidget == [w |-> 1000, h |-> 500]

\* event positions on the signature canvas in 1/5 pixel (tablet positions are
\* sub-pixel): three points on one line, 7 and 14 pixels apart
SamplePts == { <<1200, 650>>, <<1221, 678>>, <<1263, 734>> }

\* milliseconds between two samples (now - self._last_ms)
Elapsed == {1}

None == [none |-> TRUE]
IsNone(v) == "none" \in DOMAIN v

(***************************************************************************)
(* QPointF / QRectF.                                                       *)
(***************************************************************************)
QPointF(x, y) == [x |-> x, y |-> y]
QRectF(x, y, w, h) == [x |-> x, y |-> y, w |-> w, h |-> h]
NullRect == QRectF(0, 0, 0, 0)

Min(a, b) == IF a <= b THEN a ELSE b
Max(a, b) == IF a >= b THEN a ELSE b
Abs(a) == IF a < 0 THEN -a ELSE a

Left(r) == r.x
Top(r) == r.y
Right(r) == r.x + r.w
Bottom(r) == r.y + r.h

IsNull(r) == r.w = 0 /\ r.h = 0
IsEmpty(r) == r.w <= 0 \/ r.h <= 0

\* bool(QRectF) in PySide6 is "not isNull()"; bool(None) is False
Truthy(r) == ~IsNone(r) /\ ~IsNull(r)

\* the normalised extent of a rectangle on one axis
Lo(p, len) == IF len < 0 THEN p + len ELSE p
Hi(p, len) == IF len < 0 THEN p ELSE p + len

\* QRectF::intersected (operator&)
Intersected(a, b) ==
    LET l1 == Lo(a.x, a.w)  r1 == Hi(a.x, a.w)
        l2 == Lo(b.x, b.w)  r2 == Hi(b.x, b.w)
        t1 == Lo(a.y, a.h)  b1 == Hi(a.y, a.h)
        t2 == Lo(b.y, b.h)  b2 == Hi(b.y, b.h)
    IN  IF l1 = r1 \/ l2 = r2 \/ l1 >= r2 \/ l2 >= r1 THEN NullRect
        ELSE IF t1 = b1 \/ t2 = b2 \/ t1 >= b2 \/ t2 >= b1 THEN NullRect
        ELSE QRectF(Max(l1, l2), Max(t1, t2),
                    Min(r1, r2) - Max(l1, l2), Min(b1, b2) - Max(t1, t2))

\* QRectF::contains(QPointF): edges included, a null extent contains nothing
Contains(r, p) ==
    LET l == Lo(r.x, r.w)  rr == Hi(r.x, r.w)
        t == Lo(r.y, r.h)  b == Hi(r.y, r.h)
    IN  /\ l # rr /\ t # b
        /\ p.x >= l /\ p.x <= rr
        /\ p.y >= t /\ p.y <= b

Translated(r, dx, dy) == QRectF(r.x + dx, r.y + dy, r.w, r.h)
SetLeft(r, pos) == QRectF(pos, r.y, r.w - (pos - r.x), r.h)
SetTop(r, pos) == QRectF(r.x, pos, r.w, r.h - (pos - r.y))
SetRight(r, pos) == QRectF(r.x, r.y, pos - r.x, r.h)
SetBottom(r, pos) == QRectF(r.x, r.y, r.w, pos - r.y)

\* QRectF(topLeft, bottomRight).normalized()
NormalizedFrom(p, q) ==
    QRectF(Min(p.x, q.x), Min(p.y, q.y), Abs(q.x - p.x), Abs(q.y - p.y))

(***************************************************************************)
(* Images: width, height and the set of pixels with alpha > 0.             *)
(***************************************************************************)
QImage(w, h, px) == [w |-> w, h |-> h, px |-> px]

SetMin(S) == CHOOSE m \in S : \A e \in S : m <= e
SetMax(S) == CHOOSE m \in S : \A e \in S : m >= e

\* crop_alpha_bbox
\* variant whose rectangle is one pixel short in width and height
crop_alpha_bbox_short(qimg, padding) ==
    IF qimg.px = {} THEN qimg
    ELSE LET xs == { p[1] : p \in qimg.px }
             ys == { p[2] : p \in qimg.px }
             minx == Max(0, SetMin(xs) - padding)
             miny == Max(0, SetMin(ys) - padding)
             maxx == Min(qimg.w - 1, SetMax(xs) + padding)
             maxy == Min(qimg.h - 1, SetMax(ys) + padding)
         IN  QImage(maxx - minx, maxy - miny,
                    { <<p[1] - minx, p[2] - miny>> : p \in qimg.px })

\* variant that returns a null image when nothing is drawn
crop_alpha_bbox_null(qimg, padding) ==
    IF qimg.px = {} THEN QImage(0, 0, {})
    ELSE LET xs == { p[1] : p \in qimg.px }
             ys == { p[2] : p \in qimg.px }
             minx == Max(0, SetMin(xs) - padding)
             miny == Max(0, SetMin(ys) - padding)
             maxx == Min(qimg.w - 1, SetMax(xs) + padding)
             maxy == Min(qimg.h - 1, SetMax(ys) + padding)
         IN  QImage(maxx - minx + 1, maxy - miny + 1,
                    { <<p[1] - minx, p[2] - miny>> : p \in qimg.px })

\* variant without the clamp to the image bounds
crop_alpha_bbox_unclamped(qimg, padding) ==
    IF qimg.px = {} THEN qimg
    ELSE LET xs == { p[1] : p \in qimg.px }
             ys == { p[2] : p \in qimg.px }
             minx == SetMin(xs) - padding
             miny == SetMin(ys) - padding
             maxx == SetMax(xs) + padding
             maxy == SetMax(ys) + padding
         IN  QImage(maxx - minx + 1, maxy - miny + 1,
                    { <<p[1] - minx, p[2] - miny>> : p \in qimg.px })

crop_alpha_bbox(qimg, padding) ==
    IF qimg.px = {} THEN qimg
    ELSE LET xs == { p[1] : p \in qimg.px }
             ys == { p[2] : p \in qimg.px }
             minx == Max(0, SetMin(xs) - padding)
             miny == Max(0, SetMin(ys) - padding)
             maxx == Min(qimg.w - 1, SetMax(xs) + padding)
             maxy == Min(qimg.h - 1, SetMax(ys) + padding)
         IN  QImage(maxx - minx + 1, maxy - miny + 1,
                    { <<p[1] - minx, p[2] - miny>> : p \in qimg.px })

\* PNG bytes: the signature, the header's width and height, the pixel data;
\* a failed save leaves the byte array empty
EmptyBytes == [sig |-> ""]
NonEmptyBytes(b) == ~IsNone(b) /\ b.sig # ""

\* QImage.save(buf, "PNG") into an empty QByteArray, then bytes(qba)
EncodePNG(img) ==
    IF img.w <= 0 \/ img.h <= 0 THEN EmptyBytes
    ELSE [sig |-> "PNG", w |-> img.w, h |-> img.h, data |-> img.px]

\* QImage.loadFromData(bytes, "PNG"): the image, or None when it fails
DecodePNG(b) ==
    IF b.sig = "PNG" THEN QImage(b.w, b.h, b.data) ELSE None

(***************************************************************************)
(* State.                                                                  *)
(***************************************************************************)
VARIABLES
    doc,            \* a document is open (self.doc)
    page_index,     \* self.page_index
    cr,             \* size in pixels of canvas.contentsRect()
    render_scale,   \* self.render_scale, <<num, den>>
    pm_size,        \* self.pm_size in pixels
    sel_start,      \* self.sel_start
    sel_rect,       \* self.sel_rect
    preview_active, \* self._preview_active
    preview_img,    \* self._preview_img
    preview_rect,   \* self._preview_rect
    dragging,       \* self._dragging
    resizing,       \* self._resizing: "None" or a corner name
    drag_start,     \* self._drag_start
    orig_rect,      \* self._orig_rect
    mouse_down,     \* a mouse button is held over the canvas
    call,           \* the insert_signature_png call the latest handler made, or None
    nzoom,          \* wheel steps applied since the preview became active
    ngest,          \* drag and resize gestures started so far
    msg,            \* the message box the latest handler showed, "" when none
    pad_open,       \* sign_here is inside pad.exec(): the signature dialog is open
    points,         \* SignatureCanvas._points
    raw_prev,       \* SignatureCanvas._raw_prev
    smooth_prev,    \* SignatureCanvas._smooth_prev
    ma_win,         \* SignatureCanvas._ma_win
    pressed,        \* SignatureCanvas._pressed
    pad_img,        \* SignatureCanvas._img: size and the ink drawn into it
    png_bytes,      \* SignaturePad._png_bytes
    left_down,      \* the left mouse button is held over the signature canvas
    stroke_active,  \* _stroke_begin has run and _stroke_end has not run since
    last_s,         \* the point the latest _stroke_add computed, None when none
    nsamples,       \* _stroke_add calls since the dialog opened
    nstrokes,       \* _stroke_begin calls since the dialog opened
    arg,            \* the arguments of the function under evaluation
    res             \* its result, None before the evaluation

viewVars == <<doc, page_index, cr, render_scale, pm_size, sel_start, sel_rect>>
prevVars == <<preview_active, preview_img, preview_rect>>
gestVars == <<dragging, resizing, drag_start, orig_rect>>
histVars == <<nzoom, ngest>>
strokeVars == <<points, raw_prev, smooth_prev, ma_win>>
padVars == <<pad_open, strokeVars, pressed, pad_img, png_bytes, left_down,
             stroke_active, last_s, nsamples, nstrokes>>
funVars == <<arg, res>>
vars == <<viewVars, prevVars, gestVars, mouse_down, histVars, call, msg,
          padVars, funVars>>

\* what the user and the collaborator see of one handler: the message box it
\* shows ("" when none) and the insert_signature_png call it makes (None when none)
Show(text) == msg' = text /\ call' = None
Quiet == msg' = "" /\ call' = None

(***************************************************************************)
(* Geometry of the rendered page.                                          *)
(***************************************************************************)
RatLE(a, b) == a[1] * b[2] <= b[1] * a[2]
RatMin(a, b) == IF RatLE(a, b) THEN a ELSE b
RatMax(a, b) == IF RatLE(a, b) THEN b ELSE a
CeilDiv(a, b) == -((-a) \div b)

\* s = max(0.1, min(W / page_w, H / page_h))
RenderScale(c, pt) == RatMax(<<1, 10>>, RatMin(<<c.w, pt.w>>, <<c.h, pt.h>>))

\* the pixel size of page.get_pixmap(matrix = Matrix(s, s)): the scaled page
\* rectangle rounded outwards to whole pixels
PixmapSize(pt, s) ==
    [w |-> CeilDiv(pt.w * s[1], s[2]), h |-> CeilDiv(pt.h * s[1], s[2])]

\* x_off, y_off = (cr.width() - pm_size.width()) / 2, ... in 1/U pixel
XOff(c, pm) == ((c.w - pm.w) * U) \div 2
YOff(c, pm) == ((c.h - pm.h) * U) \div 2

\* _draw_canvas: x_off, y_off = (cr.width() - pm_size.width()) // 2, ..., where
\* drawPixmap puts the page image, in 1/U pixel
DrawXOff(c, pm) == ((c.w - pm.w) \div 2) * U
DrawYOff(c, pm) == ((c.h - pm.h) \div 2) * U

\* pix_rect: the rendered page image inside the canvas
PixRectOf(c, pm) == QRectF(XOff(c, pm), YOff(c, pm), pm.w * U, pm.h * U)
PixRect == PixRectOf(cr, pm_size)

\* the translation to page pixels and the clamp to the page, shared by
\* _rect_to_pdf_points and _canvas_rect_to_pdf_points
ToPagePixels(r) ==
    Intersected(Translated(r, -XOff(cr, pm_size), -YOff(cr, pm_size)),
                QRectF(0, 0, pm_size.w * U, pm_size.h * U))

\* r / render_scale for the four edges: numerators over the common
\* denominator den (value = num / den page points)
PdfPoints(r2) ==
    [left   |-> Left(r2) * render_scale[2],
     top    |-> Top(r2) * render_scale[2],
     right  |-> Right(r2) * render_scale[2],
     bottom |-> Bottom(r2) * render_scale[2],
     den    |-> U * render_scale[1]]

\* variant without the clamp to the page: the translated rectangle as it is
canvas_rect_to_pdf_points_unclamped(r) ==
    LET r2 == Translated(r, -XOff(cr, pm_size), -YOff(cr, pm_size))
    IN  IF IsEmpty(r2) THEN None ELSE PdfPoints(r2)

canvas_rect_to_pdf_points(r) ==
    LET r2 == ToPagePixels(r)
    IN  IF IsEmpty(r2) THEN None ELSE PdfPoints(r2)

rect_to_pdf_points ==
    IF ~Truthy(sel_rect) \/ IsEmpty(sel_rect) THEN None
    ELSE canvas_rect_to_pdf_points(sel_rect)

\* int(max(1.0, extent_pt) / 72.0 * dpi) clamped to [lo, hi]
PadPixels(num, den, lo, hi) ==
    LET ext == IF num < den THEN <<1, 1>> ELSE <<num, den>>
        px == (ext[1] * Dpi) \div (ext[2] * 72)
    IN  Max(lo, Min(px, hi))

(***************************************************************************)
(* Initial state: PdfViewer.__init__.                                      *)
(***************************************************************************)
\* no signature dialog exists
PadClosed ==
    /\ pad_open = FALSE
    /\ points = << >>
    /\ raw_prev = None
    /\ smooth_prev = None
    /\ ma_win = << >>
    /\ pressed = FALSE
    /\ pad_img = None
    /\ png_bytes = None
    /\ left_down = FALSE
    /\ stroke_active = FALSE
    /\ last_s = None
    /\ nsamples = 0
    /\ nstrokes = 0

\* the viewer's handlers run while no signature dialog is open
ViewerOnly == UNCHANGED <<padVars, funVars>>

Init ==
    /\ doc = FALSE
    /\ page_index = 0
    /\ cr = InitCanvas
    /\ render_scale = <<1, 1>>
    /\ pm_size = [w |-> 1, h |-> 1]
    /\ sel_start = None
    /\ sel_rect = None
    /\ preview_active = FALSE
    /\ preview_img = None
    /\ preview_rect = None
    /\ dragging = FALSE
    /\ resizing = "None"
    /\ drag_start = None
    /\ orig_rect = None
    /\ mouse_down = FALSE
    /\ call = None
    /\ nzoom = 0
    /\ ngest = 0
    /\ msg = ""
    /\ PadClosed
    /\ arg = None
    /\ res = None

(***************************************************************************)
(* cancel_signature and render_page, as the assignments they make.         *)
(***************************************************************************)
CancelAssign ==
    /\ preview_active' = FALSE
    /\ preview_img' = None
    /\ preview_rect' = None

\* render_page with the page index pi and the canvas size c already in place
RenderAssign(pi, c) ==
    IF c.w < MinCanvas \/ c.h < MinCanvas
    THEN UNCHANGED <<render_scale, pm_size, sel_rect, prevVars>>
    ELSE LET s == RenderScale(c, PagePt[pi + 1])
         IN  /\ render_scale' = s
             /\ pm_size' = PixmapSize(PagePt[pi + 1], s)
             /\ sel_rect' = None
             /\ CancelAssign

(***************************************************************************)
(* PDF I/O, resizing, navigation.                                          *)
(***************************************************************************)
open_pdf ==
    /\ doc' = TRUE
    /\ page_index' = 0
    /\ RenderAssign(0, cr)
    /\ Quiet
    /\ UNCHANGED <<cr, sel_start, gestVars, mouse_down, histVars>>
    /\ ViewerOnly

resizeEvent(c) ==
    /\ c # cr
    /\ cr' = c
    /\ IF doc THEN RenderAssign(page_index, c)
       ELSE UNCHANGED <<render_scale, pm_size, sel_rect, prevVars>>
    /\ Quiet
    /\ UNCHANGED <<doc, page_index, sel_start, gestVars, mouse_down, histVars>>
    /\ ViewerOnly

prev_page ==
    /\ IF doc /\ page_index > 0
       THEN /\ page_index' = page_index - 1
            /\ RenderAssign(page_index - 1, cr)
            /\ Quiet
       ELSE /\ UNCHANGED <<page_index, render_scale, pm_size, sel_rect, prevVars>>
            /\ Quiet
    /\ UNCHANGED <<doc, cr, sel_start, gestVars, mouse_down, histVars>>
    /\ ViewerOnly

next_page ==
    /\ IF doc /\ page_index < NumPages - 1
       THEN /\ page_index' = page_index + 1
            /\ RenderAssign(page_index + 1, cr)
            /\ Quiet
       ELSE /\ UNCHANGED <<page_index, render_scale, pm_size, sel_rect, prevVars>>
            /\ Quiet
    /\ UNCHANGED <<doc, cr, sel_start, gestVars, mouse_down, histVars>>
    /\ ViewerOnly

(***************************************************************************)
(* Selection and preview gestures.                                         *)
(***************************************************************************)
\* _pos_local: the event position in canvas-local 1/U pixel
PosLocal(x, y) == QPointF(x * U, y * U)

CornerOf(name, r) ==
    CASE name = "tl" -> QPointF(Left(r), Top(r))
      [] name = "tr" -> QPointF(Right(r), Top(r))
      [] name = "bl" -> QPointF(Left(r), Bottom(r))
      [] name = "br" -> QPointF(Right(r), Bottom(r))

Near(pos, c, tol) == Abs(pos.x - c.x) <= tol /\ Abs(pos.y - c.y) <= tol

\* variant that looks at the corners in the order br, bl, tr, tl
hit_corner_reversed(pos, r, tol) ==
    IF Near(pos, CornerOf("br", r), tol) THEN "br"
    ELSE IF Near(pos, CornerOf("bl", r), tol) THEN "bl"
    ELSE IF Near(pos, CornerOf("tr", r), tol) THEN "tr"
    ELSE IF Near(pos, CornerOf("tl", r), tol) THEN "tl"
    ELSE "None"

\* the first corner, in the dict's order tl, tr, bl, br, within tol of pos
hit_corner(pos, r, tol) ==
    IF Near(pos, CornerOf("tl", r), tol) THEN "tl"
    ELSE IF Near(pos, CornerOf("tr", r), tol) THEN "tr"
    ELSE IF Near(pos, CornerOf("bl", r), tol) THEN "bl"
    ELSE IF Near(pos, CornerOf("br", r), tol) THEN "br"
    ELSE "None"

\* the press is inside QRectF(0, 0, cr.width(), cr.height())
InCanvas(p) == Contains(QRectF(0, 0, cr.w * U, cr.h * U), p)

start_sel(x, y) ==
    LET p == PosLocal(x, y)
        corner == hit_corner(p, preview_rect, Tol * U)
    IN  /\ ~mouse_down
        /\ mouse_down' = TRUE
        /\ IF ~InCanvas(p)
           THEN UNCHANGED <<sel_start, sel_rect, gestVars, ngest>>
           ELSE IF preview_active /\ Truthy(preview_rect)
           THEN IF corner # "None"
                THEN /\ ngest < MaxGest
                     /\ ngest' = ngest + 1
                     /\ resizing' = corner /\ dragging' = FALSE
                     /\ drag_start' = p /\ orig_rect' = preview_rect
                     /\ UNCHANGED <<sel_start, sel_rect>>
                ELSE IF Contains(preview_rect, p)
                THEN /\ ngest < MaxGest
                     /\ ngest' = ngest + 1
                     /\ dragging' = TRUE /\ resizing' = "None"
                     /\ drag_start' = p /\ orig_rect' = preview_rect
                     /\ UNCHANGED <<sel_start, sel_rect>>
                ELSE UNCHANGED <<sel_start, sel_rect, gestVars, ngest>>
           ELSE /\ sel_start' = p
                /\ sel_rect' = QRectF(p.x, p.y, 0, 0)
                /\ UNCHANGED <<gestVars, ngest>>
        /\ Quiet
        /\ UNCHANGED <<doc, page_index, cr, render_scale, pm_size, prevVars,
                       nzoom>>
        /\ ViewerOnly

\* the dragged corner's two edges moved by (dx, dy)
MoveCorner(r, corner, dx, dy) ==
    CASE corner = "tl" -> SetLeft(SetTop(r, Top(r) + dy), Left(r) + dx)
      [] corner = "tr" -> SetRight(SetTop(r, Top(r) + dy), Right(r) + dx)
      [] corner = "bl" -> SetLeft(SetBottom(r, Bottom(r) + dy), Left(r) + dx)
      [] corner = "br" -> SetRight(SetBottom(r, Bottom(r) + dy), Right(r) + dx)

\* if r.width() < 40: r.setRight(r.left() + 40); the same for the height
EnforceMin(r) ==
    LET r1 == IF r.w < MinW * U THEN SetRight(r, Left(r) + MinW * U) ELSE r
    IN  IF r1.h < MinH * U THEN SetBottom(r1, Top(r1) + MinH * U) ELSE r1

DragRect(orig, start, p, pix) ==
    Intersected(Translated(orig, p.x - start.x, p.y - start.y), pix)

ResizeRect(orig, corner, start, p, pix) ==
    Intersected(EnforceMin(MoveCorner(orig, corner, p.x - start.x, p.y - start.y)), pix)

drag_sel(x, y) ==
    LET p == PosLocal(x, y)
    IN  /\ mouse_down
        /\ IF preview_active /\ Truthy(preview_rect) /\ dragging
           THEN /\ preview_rect' = DragRect(orig_rect, drag_start, p, PixRect)
                /\ UNCHANGED sel_rect
                /\ Quiet
           ELSE IF preview_active /\ Truthy(preview_rect) /\ resizing # "None"
           THEN /\ preview_rect' = ResizeRect(orig_rect, resizing, drag_start, p, PixRect)
                /\ UNCHANGED sel_rect
                /\ Quiet
           ELSE IF IsNone(sel_start)
           THEN /\ UNCHANGED <<preview_rect, sel_rect>>
                /\ Quiet
           ELSE /\ sel_rect' = NormalizedFrom(sel_start, p)
                /\ UNCHANGED preview_rect
                /\ Quiet
        /\ UNCHANGED <<doc, page_index, cr, render_scale, pm_size, sel_start,
                       preview_active, preview_img, gestVars, mouse_down,
                       histVars>>
        /\ ViewerOnly

end_sel ==
    /\ mouse_down
    /\ mouse_down' = FALSE
    /\ dragging' = FALSE
    /\ resizing' = "None"
    /\ sel_start' = None
    /\ Quiet
    /\ UNCHANGED <<doc, page_index, cr, render_scale, pm_size, sel_rect, prevVars,
                   drag_start, orig_rect, histVars>>
    /\ ViewerOnly

\* the rectangle scaled by num/den about its centre
\* variant without r.moveCenter: the top-left corner stays
ZoomRect_from_corner(r, num, den) ==
    QRectF(r.x, r.y, (r.w * num) \div den, (r.h * num) \div den)

ZoomRect(r, num, den) ==
    LET w2 == (r.w * num) \div den
        h2 == (r.h * num) \div den
    IN  QRectF((2 * r.x + r.w - w2) \div 2, (2 * r.y + r.h - h2) \div 2, w2, h2)

wheel_event(x, y, delta) ==
    LET p == PosLocal(x, y)
    IN  /\ IF preview_active /\ Truthy(preview_rect) /\ Contains(preview_rect, p)
           THEN /\ nzoom < MaxZoom
                /\ nzoom' = nzoom + 1
                /\ preview_rect' =
                     Intersected(ZoomRect(preview_rect, WheelNum(delta), WheelDen), PixRect)
                /\ Quiet
           ELSE /\ UNCHANGED <<nzoom, preview_rect>>
                /\ Quiet
        /\ UNCHANGED <<viewVars, preview_active, preview_img, gestVars, mouse_down,
                       ngest>>
        /\ ViewerOnly

(***************************************************************************)
(* The signing flow.  pad.exec() is modal: sign_here runs from the click   *)
(* to its return as one step, and the dialog's outcome is its input: the   *)
(* drawing buffer the pad's canvas holds when the dialog closes, and       *)
(* whether it closed by accept() or by reject().                           *)
(***************************************************************************)
\* the pad's buffer size for the selected rectangle in page points
PadSize(rect_pt) ==
    [w |-> PadPixels(rect_pt.right - rect_pt.left, rect_pt.den, PadMinW, PadMaxW),
     h |-> PadPixels(rect_pt.bottom - rect_pt.top, rect_pt.den, PadMinH, PadMaxH)]

\* SignaturePad.accept: the bytes it stores; SignaturePad.reject: None
AcceptBytes(img) == EncodePNG(crop_alpha_bbox(img, CropPadding))

\* sign_here's test "if not png_bytes: return"
Rejected(bytes) == ~NonEmptyBytes(bytes)

\* sign_here after pad.exec() returned Accepted
SignAccepted(buf) ==
    LET bytes == AcceptBytes(buf)
        img == DecodePNG(bytes)
    IN  IF Rejected(bytes)
        THEN /\ UNCHANGED <<prevVars, nzoom>>
             /\ Quiet
        ELSE IF IsNone(img)
        THEN /\ UNCHANGED <<prevVars, nzoom>>
             /\ Show("No se pudo leer la imagen de la firma.")
        ELSE IF ~Truthy(sel_rect) \/ IsEmpty(sel_rect)
        THEN /\ UNCHANGED <<prevVars, nzoom>>
             /\ Show("Selecciona el area objetivo en la pagina.")
        ELSE /\ preview_img' = img
             /\ preview_rect' = sel_rect
             /\ preview_active' = TRUE
             /\ nzoom' = 0
             /\ Quiet

sign_here(ink, accepted) ==
    /\ IF ~doc
       THEN /\ UNCHANGED <<prevVars, nzoom>>
            /\ Show("Abre un PDF primero.")
       ELSE IF IsNone(rect_to_pdf_points)
       THEN /\ UNCHANGED <<prevVars, nzoom>>
            /\ Show("Dibuja un rectangulo para la firma.")
       ELSE IF ~accepted
       THEN /\ UNCHANGED <<prevVars, nzoom>>
            /\ Quiet
       ELSE SignAccepted(QImage(PadSize(rect_to_pdf_points).w,
                                PadSize(rect_to_pdf_points).h, ink))
    /\ UNCHANGED <<viewVars, gestVars, mouse_down, ngest>>
    /\ ViewerOnly

\* apply_signature's guard
Active == preview_active /\ ~IsNone(preview_img) /\ ~IsNone(preview_rect)

\* the record of one call insert_signature_png(doc.name, page_index, rect_pt, png)
InsertCall(rect_pt, ok) ==
    [page |-> page_index, rect |-> rect_pt, png |-> EncodePNG(preview_img), ok |-> ok]

\* try: insert ... except: report ... finally: cancel_signature()
ApplyInsert(rect_pt, ok) ==
    /\ call' = InsertCall(rect_pt, ok)
    /\ CancelAssign
    /\ msg' = IF ok THEN "PDF firmado guardado" ELSE "Error al insertar firma"

\* variant that closes the preview after the warning
ApplyOutside_closing ==
    /\ CancelAssign
    /\ Show("La firma quedo fuera de la pagina.")

\* the warning "La firma quedo fuera de la pagina" and return
ApplyOutside ==
    /\ UNCHANGED prevVars
    /\ Show("La firma quedo fuera de la pagina.")

apply_signature ==
    /\ IF ~Active
       THEN /\ UNCHANGED prevVars
            /\ Quiet
       ELSE IF IsNone(canvas_rect_to_pdf_points(preview_rect))
       THEN ApplyOutside
       ELSE \E ok \in BOOLEAN :
                ApplyInsert(canvas_rect_to_pdf_points(preview_rect), ok)
    /\ UNCHANGED <<viewVars, gestVars, mouse_down, nzoom, ngest>>
    /\ ViewerOnly

cancel_signature ==
    /\ CancelAssign
    /\ Quiet
    /\ UNCHANGED <<viewVars, gestVars, mouse_down, histVars>>
    /\ ViewerOnly

(***************************************************************************)
(* The viewer's event loop.                                                *)
(***************************************************************************)
Next ==
    \/ open_pdf
    \/ \E c \in Canvases : resizeEvent(c)
    \/ prev_page
    \/ next_page
    \/ \E q \in PressPts : start_sel(q[1], q[2])
    \/ \E q \in MovePts : drag_sel(q[1], q[2])
    \/ end_sel
    \/ \E q \in WheelPts, d \in WheelDeltas : wheel_event(q[1], q[2], d)
    \/ \E ink \in {{}} \cup Inks, accepted \in BOOLEAN : sign_here(ink, accepted)
    \/ apply_signature
    \/ cancel_signature

Spec == Init /\ [][Next]_vars

(***************************************************************************)
(* Exact rational arithmetic for the signature canvas: a number is         *)
(* <<num, den>> in lowest terms with den > 0; a point is a pair of them.   *)
(***************************************************************************)
RECURSIVE GcdNat(_, _)
GcdNat(a, b) == IF b = 0 THEN a ELSE GcdNat(b, a % b)
Gcd(a, b) == GcdNat(Abs(a), Abs(b))

Rat(n, d) ==
    LET g == Gcd(n, d)
        sg == IF d < 0 THEN -1 ELSE 1
    IN  IF n = 0 THEN <<0, 1>> ELSE <<sg * (n \div g), sg * (d \div g)>>

RInt(n) == <<n, 1>>
RAdd(a, b) ==
    LET g == Gcd(a[2], b[2])
    IN  Rat(a[1] * (b[2] \div g) + b[1] * (a[2] \div g), (a[2] \div g) * b[2])
RNeg(a) == <<-a[1], a[2]>>
RSub(a, b) == RAdd(a, RNeg(b))
RMul(a, b) ==
    LET g1 == Gcd(a[1], b[2])
        g2 == Gcd(b[1], a[2])
    IN  IF a[1] = 0 \/ b[1] = 0 THEN <<0, 1>>
        ELSE Rat((a[1] \div g1) * (b[1] \div g2), (a[2] \div g2) * (b[2] \div g1))
RDiv(a, b) == RMul(a, IF b[1] < 0 THEN <<-b[2], -b[1]>> ELSE <<b[2], b[1]>>)
RAbs(a) == <<Abs(a[1]), a[2]>>
RLess(a, b) == a[1] * b[2] < b[1] * a[2]
RFloor(a) == a[1] \div a[2]

\* the square root of a rational whose numerator and denominator are squares
ISqrt(n) == CHOOSE r \in 0..n : r * r = n
RSqrt(a) == <<ISqrt(a[1]), ISqrt(a[2])>>

\* QPointF with rational coordinates
PtF(x, y) == [x |-> x, y |-> y]
PtSub(p, q) == PtF(RSub(p.x, q.x), RSub(p.y, q.y))
\* QPointF.manhattanLength
ManhattanLength(p) == RAdd(RAbs(p.x), RAbs(p.y))

(***************************************************************************)
(* SignatureCanvas: the adaptive stroke filter.                            *)
(***************************************************************************)
Smin == <<7, 50>>
Smax == <<13, 20>>
Vref == <<14, 5>>

\* variant with the floor alone as the threshold
MinSegLen_floor_only == RInt(MinSegFloor)

\* min_seg_len = max(1.2 * pen_width, 6)
MinSegLen ==
    LET a == RMul(<<6, 5>>, RInt(PenWidth))
    IN  IF RLess(a, RInt(MinSegFloor)) THEN RInt(MinSegFloor) ELSE a

\* variant without the clamp of t to [0, 1]
alpha_for_unclamped(v) ==
    RAdd(Smin, RMul(RSub(Smax, Smin), RDiv(v, Vref)))

\* _alpha_for(v): t = max(0, min(1, v / vref)); smin + (smax - smin) * t
alpha_for(v) ==
    LET q == RDiv(v, Vref)
        t == RatMax(<<0, 1>>, RatMin(<<1, 1>>, q))
    IN  RAdd(Smin, RMul(RSub(Smax, Smin), t))

\* dt = max(1, now - self._last_ms)
DtOf(elapsed) == Max(1, elapsed)

\* v = (dx*dx + dy*dy) ** 0.5 / dt
Speed(pt, prev, dt) ==
    LET dx == RSub(pt.x, prev.x)
        dy == RSub(pt.y, prev.y)
    IN  RDiv(RSqrt(RAdd(RMul(dx, dx), RMul(dy, dy))), RInt(dt))

\* (1 - a) * prev + a * pt on one coordinate
Blend(a, prev, pt) == RAdd(RMul(RSub(<<1, 1>>, a), prev), RMul(a, pt))

\* deque(maxlen = 8).append
Pushed(win, e) ==
    IF Len(win) < MaWindow THEN Append(win, e) ELSE Append(Tail(win), e)

RECURSIVE SumX(_)
SumX(win) == IF win = << >> THEN <<0, 1>> ELSE RAdd(Head(win).x, SumX(Tail(win)))
RECURSIVE SumY(_)
SumY(win) == IF win = << >> THEN <<0, 1>> ELSE RAdd(Head(win).y, SumY(Tail(win)))

\* variant that divides by the window's capacity
MovingAvg_by_capacity(win) ==
    PtF(RDiv(SumX(win), RInt(MaWindow)), RDiv(SumY(win), RInt(MaWindow)))

\* _moving_avg: the mean of the window after the append
MovingAvg(win) ==
    PtF(RDiv(SumX(win), RInt(Len(win))), RDiv(SumY(win), RInt(Len(win))))

\* _ema and _moving_avg on the filter state st: the new state and the output
Filtered(st, pt, elapsed) ==
    LET e == IF IsNone(st.smooth_prev) \/ IsNone(st.raw_prev) THEN pt
             ELSE LET a == alpha_for(Speed(pt, st.raw_prev, DtOf(elapsed)))
                  IN  PtF(Blend(a, st.smooth_prev.x, pt.x),
                          Blend(a, st.smooth_prev.y, pt.y))
        win == Pushed(st.ma_win, e)
    IN  [raw_prev |-> pt, smooth_prev |-> e, ma_win |-> win, s |-> MovingAvg(win)]

(***************************************************************************)
(* SignatureCanvas: strokes and ink.  The drawing buffer is its size and   *)
(* the set of primitives painted into it, in buffer coordinates.           *)
(***************************************************************************)
\* x_off, y_off = (self.width() - self._img.width()) / 2, ...
PadXOff(im) == Rat(PadWidget.w - im.w, 2)
PadYOff(im) == Rat(PadWidget.h - im.h, 2)
\* paintEvent: x, y = (self.width() - pm.width()) // 2, ..., where drawPixmap
\* puts the buffer
PaintXOff(im) == RInt((PadWidget.w - im.w) \div 2)
PaintYOff(im) == RInt((PadWidget.h - im.h) \div 2)
ToBuf(im, q) == PtF(RSub(q.x, PadXOff(im)), RSub(q.y, PadYOff(im)))

\* steps = max(16, int(approx_len / 0.8))
Steps(p1b, p2b) == Max(MinSteps, RFloor(RDiv(ManhattanLength(PtSub(p2b, p1b)), <<4, 5>>)))

\* painter.drawLine(a, b) of the first segment
LineInk(im, a, b) == [kind |-> "line", a |-> ToBuf(im, a), b |-> ToBuf(im, b)]

\* variant that draws between the last two of the four control points
SplineInk_last_pair(im, p0, p1, p2, p3) ==
    [kind |-> "spline", p0 |-> ToBuf(im, p1), p1 |-> ToBuf(im, p2),
     p2 |-> ToBuf(im, p3), p3 |-> ToBuf(im, p3),
     steps |-> Steps(ToBuf(im, p2), ToBuf(im, p3))]

\* _draw_spline_segment: the polyline through _catmull(p0b..p3b, i / steps)
SplineInk(im, p0, p1, p2, p3) ==
    [kind |-> "spline", p0 |-> ToBuf(im, p0), p1 |-> ToBuf(im, p1),
     p2 |-> ToBuf(im, p2), p3 |-> ToBuf(im, p3),
     steps |-> Steps(ToBuf(im, p1), ToBuf(im, p2))]

Painted(im, ink) == [im EXCEPT !.ink = @ \cup {ink}]

\* the canvas state a stroke works on
StrokeState ==
    [points |-> points, raw_prev |-> raw_prev, smooth_prev |-> smooth_prev,
     ma_win |-> ma_win, img |-> pad_img]

\* _stroke_begin on the state st
Begun(st, pos) ==
    [st EXCEPT !.points = <<pos>>, !.raw_prev = None, !.smooth_prev = None,
               !.ma_win = << >>]

\* variant in which a suppressed sample leaves the filter memory alone
AddedWith_discarding(st, f) ==
    LET st1 == [st EXCEPT !.raw_prev = f.raw_prev, !.smooth_prev = f.smooth_prev,
                          !.ma_win = f.ma_win]
        pts == Append(st.points, f.s)
        n == Len(pts)
    IN  IF Len(st.points) = 1
        THEN IF RLess(ManhattanLength(PtSub(f.s, st.points[1])), MinSegLen)
             THEN st
             ELSE [st1 EXCEPT !.points = pts,
                              !.img = Painted(st.img, LineInk(st.img, pts[1], pts[2]))]
        ELSE IF n >= 4
        THEN [st1 EXCEPT !.points = pts,
                         !.img = Painted(st.img, SplineInk(st.img, pts[n - 3], pts[n - 2],
                                                           pts[n - 1], pts[n]))]
        ELSE [st1 EXCEPT !.points = pts]

\* _stroke_add after s = self._moving_avg(self._ema(pos)), f the filter's result
AddedWith(st, f) ==
    LET st1 == [st EXCEPT !.raw_prev = f.raw_prev, !.smooth_prev = f.smooth_prev,
                          !.ma_win = f.ma_win]
        pts == Append(st.points, f.s)
        n == Len(pts)
    IN  IF Len(st.points) = 1
        THEN IF RLess(ManhattanLength(PtSub(f.s, st.points[1])), MinSegLen)
             THEN st1
             ELSE [st1 EXCEPT !.points = pts,
                              !.img = Painted(st.img, LineInk(st.img, pts[1], pts[2]))]
        ELSE IF n >= 4
        THEN [st1 EXCEPT !.points = pts,
                         !.img = Painted(st.img, SplineInk(st.img, pts[n - 3], pts[n - 2],
                                                           pts[n - 1], pts[n]))]
        ELSE [st1 EXCEPT !.points = pts]

\* _stroke_add on the state st: the filter runs once
Added(st, pos, elapsed) ==
    CHOOSE r \in { AddedWith(st, f) : f \in {Filtered(st, pos, elapsed)} } : TRUE

\* variant that keeps the moving-average window
Ended_keeping_window(st) ==
    [st EXCEPT !.points = << >>, !.raw_prev = None, !.smooth_prev = None]

\* _stroke_end on the state st
Ended(st) ==
    [st EXCEPT !.points = << >>, !.raw_prev = None, !.smooth_prev = None,
               !.ma_win = << >>]

\* the canvas takes the state st
Becomes(st) ==
    /\ points' = st.points
    /\ raw_prev' = st.raw_prev
    /\ smooth_prev' = st.smooth_prev
    /\ ma_win' = st.ma_win
    /\ pad_img' = st.img

\* ev.position() of the sample q
SamplePt(q) == PtF(Rat(q[1], 5), Rat(q[2], 5))

\* the signature dialog's handlers leave the viewer alone
PadOnly ==
    UNCHANGED <<viewVars, prevVars, gestVars, mouse_down, histVars, call, msg, funVars>>

\* a handler that calls _stroke_begin(pos)
DoBegin(pos) ==
    /\ nstrokes < MaxStrokes
    /\ nstrokes' = nstrokes + 1
    /\ stroke_active' = TRUE
    /\ last_s' = None
    /\ Becomes(Begun(StrokeState, pos))
    /\ UNCHANGED nsamples

\* a handler that calls _stroke_add(pos)
DoAdd(pos, elapsed) ==
    /\ nsamples < MaxSamples
    /\ nsamples' = nsamples + 1
    /\ last_s' = Filtered(StrokeState, pos, elapsed).s
    /\ Becomes(Added(StrokeState, pos, elapsed))
    /\ UNCHANGED <<stroke_active, nstrokes>>

\* a handler that calls _stroke_begin(pos) and then _stroke_add(pos)
DoBeginAdd(pos, elapsed) ==
    /\ nstrokes < MaxStrokes
    /\ nstrokes' = nstrokes + 1
    /\ nsamples < MaxSamples
    /\ nsamples' = nsamples + 1
    /\ stroke_active' = TRUE
    /\ last_s' = Filtered(Begun(StrokeState, pos), pos, elapsed).s
    /\ Becomes(Added(Begun(StrokeState, pos), pos, elapsed))

\* a handler that calls _stroke_end()
DoEnd ==
    /\ stroke_active' = FALSE
    /\ last_s' = None
    /\ Becomes(Ended(StrokeState))
    /\ UNCHANGED <<nsamples, nstrokes>>

NoStrokeChange ==
    UNCHANGED <<strokeVars, pad_img, stroke_active, last_s, nsamples, nstrokes>>

mousePressEvent(button, q) ==
    /\ pad_open
    /\ IF button # "left"
       THEN NoStrokeChange /\ UNCHANGED left_down
       ELSE /\ ~left_down
            /\ left_down' = TRUE
            /\ DoBegin(SamplePt(q))
    /\ UNCHANGED <<pad_open, pressed, png_bytes>>
    /\ PadOnly

mouseMoveEvent(q, elapsed) ==
    /\ pad_open
    /\ IF ~left_down
       THEN NoStrokeChange
       ELSE DoAdd(SamplePt(q), elapsed)
    /\ UNCHANGED <<pad_open, pressed, png_bytes, left_down>>
    /\ PadOnly

mouseReleaseEvent(button) ==
    /\ pad_open
    /\ IF button # "left"
       THEN NoStrokeChange /\ UNCHANGED left_down
       ELSE /\ left_down
            /\ left_down' = FALSE
            /\ DoEnd
    /\ UNCHANGED <<pad_open, pressed, png_bytes>>
    /\ PadOnly

\* tabletEvent; tip: the pressure is above press_threshold or the event's
\* buttons hold the left button
tabletEvent(t, q, tip, elapsed) ==
    LET down == pressed \/ tip
    IN  /\ pad_open
        /\ CASE t = "press" ->
                  /\ pressed' = TRUE
                  /\ DoBegin(SamplePt(q))
             [] t = "move" ->
                  IF ~down
                  THEN pressed' = FALSE /\ DoEnd
                  ELSE /\ UNCHANGED pressed
                       /\ IF points = << >>
                          THEN DoBeginAdd(SamplePt(q), elapsed)
                          ELSE DoAdd(SamplePt(q), elapsed)
             [] t = "release" ->
                  /\ pressed' = FALSE
                  /\ DoEnd
        /\ UNCHANGED <<pad_open, png_bytes, left_down>>
        /\ PadOnly

\* SignatureCanvas.clear
clear ==
    /\ pad_open
    /\ pad_img' = [pad_img EXCEPT !.ink = {}]
    /\ UNCHANGED <<pad_open, strokeVars, pressed, png_bytes, left_down,
                   stroke_active, last_s, nsamples, nstrokes>>
    /\ PadOnly

(***************************************************************************)
(* SignaturePad: the modal dialog between sign_here's pad.exec() and its   *)
(* return, event by event.                                                 *)
(***************************************************************************)
\* the pixel a point of the buffer lies in
PixelOf(p) == <<RFloor(p.x), RFloor(p.y)>>

\* the points a primitive's centre line starts and ends at
InkEnds(ink) == IF ink.kind = "line" THEN {ink.a, ink.b} ELSE {ink.p1, ink.p2}

\* SignatureCanvas.image(): the buffer as an image; of the pixels the pen
\* covers it keeps those under the ends of each primitive inside the buffer
image(im) ==
    QImage(im.w, im.h,
           { px \in { PixelOf(p) : p \in UNION { InkEnds(k) : k \in im.ink } } :
               px[1] >= 0 /\ px[1] < im.w /\ px[2] >= 0 /\ px[2] < im.h })

\* the dialog and its canvas are gone when sign_here returns
CanvasGone ==
    /\ points' = << >>
    /\ raw_prev' = None
    /\ smooth_prev' = None
    /\ ma_win' = << >>
    /\ pressed' = FALSE
    /\ pad_img' = None
    /\ stroke_active' = FALSE
    /\ last_s' = None
    /\ left_down' = FALSE
    /\ UNCHANGED <<nsamples, nstrokes>>

\* SignaturePad.accept, then sign_here from pad.exec() to its return
accept ==
    /\ pad_open
    /\ pad_open' = FALSE
    /\ png_bytes' = AcceptBytes(image(pad_img))
    /\ SignAccepted(image(pad_img))
    /\ CanvasGone
    /\ UNCHANGED <<viewVars, gestVars, mouse_down, ngest, funVars>>

\* variant that hands the drawn image to the preview all the same
reject_previewing ==
    /\ pad_open
    /\ pad_open' = FALSE
    /\ png_bytes' = None
    /\ SignAccepted(image(pad_img))
    /\ CanvasGone
    /\ UNCHANGED <<viewVars, gestVars, mouse_down, ngest, funVars>>

\* SignaturePad.reject, then sign_here's return
reject ==
    /\ pad_open
    /\ pad_open' = FALSE
    /\ png_bytes' = None
    /\ CanvasGone
    /\ Quiet
    /\ UNCHANGED <<viewVars, prevVars, gestVars, mouse_down, histVars, funVars>>

\* a signature placed earlier and still previewed when sign_here runs again
EarlierImage == QImage(40, 36, { <<16, 16>>, <<23, 19>> })

\* sign_here is inside pad.exec(): the viewer has a document open and the
\* rectangle (6,6)-(50,30) selected, with or without an earlier preview; the
\* dialog has just been built (SignaturePad.__init__, SignatureCanvas.__init__)
InitPad ==
    /\ doc = TRUE
    /\ page_index = 0
    /\ cr = InitCanvas
    /\ render_scale = RenderScale(InitCanvas, PagePt[1])
    /\ pm_size = PixmapSize(PagePt[1], RenderScale(InitCanvas, PagePt[1]))
    /\ sel_start = None
    /\ sel_rect = QRectF(6 * U, 6 * U, 44 * U, 24 * U)
    /\ \/ preview_active = FALSE /\ preview_img = None /\ preview_rect = None
       \/ /\ preview_active = TRUE
          /\ preview_img = EarlierImage
          /\ preview_rect = QRectF(6 * U, 6 * U, 44 * U, 24 * U)
    /\ dragging = FALSE
    /\ resizing = "None"
    /\ drag_start = None
    /\ orig_rect = None
    /\ mouse_down = FALSE
    /\ call = None
    /\ nzoom = 0
    /\ ngest = 0
    /\ msg = ""
    /\ pad_open = TRUE
    /\ points = << >>
    /\ raw_prev = None
    /\ smooth_prev = None
    /\ ma_win = << >>
    /\ pressed = FALSE
    /\ pad_img = [w |-> PadSize(canvas_rect_to_pdf_points(sel_rect)).w,
                  h |-> PadSize(canvas_rect_to_pdf_points(sel_rect)).h, ink |-> {}]
    /\ png_bytes = None
    /\ left_down = FALSE
    /\ stroke_active = FALSE
    /\ last_s = None
    /\ nsamples = 0
    /\ nstrokes = 0
    /\ arg = None
    /\ res = None

Buttons == {"left", "right"}
TabletTypes == {"press", "move", "release"}

NextPad ==
    \/ \E b \in Buttons, q \in SamplePts : mousePressEvent(b, q)
    \/ \E q \in SamplePts, e \in Elapsed : mouseMoveEvent(q, e)
    \/ \E b \in Buttons : mouseReleaseEvent(b)
    \/ \E t \in TabletTypes, q \in SamplePts, tip \in BOOLEAN, e \in Elapsed :
          tabletEvent(t, q, tip, e)
    \/ clear
    \/ accept
    \/ reject

SpecPad == InitPad /\ [][NextPad]_vars

(***************************************************************************)
(* Properties.                                                             *)
(***************************************************************************)
Corners == {"tl", "tr", "bl", "br"}

\* one mouse-move handled by _drag_sel, one press handled by _start_sel
MoveStep == \E q \in MovePts : drag_sel(q[1], q[2])
PressStep(q) == start_sel(q[1], q[2])

\* r lies inside the rendered page image pix, edges included
Inside(r, pix) ==
    /\ Left(r) >= Left(pix) /\ Right(r) <= Right(pix)
    /\ Top(r) >= Top(pix) /\ Bottom(r) <= Bottom(pix)
    /\ r.w >= 0 /\ r.h >= 0

\* C1: while the preview is Active, after any drag, resize or wheel step, the
\* placement rectangle is at least 40 wide and 20 high.
C1_MinimumSize ==
    Active => (preview_rect.w >= MinW * U /\ preview_rect.h >= MinH * U)

\* C2: in every Active state, from the seeding in sign_here on, the placement
\* rectangle lies fully inside the rectangle of the rendered page image.
C2_InsidePage ==
    Active => Inside(preview_rect, PixRect)

\* C3: when apply_signature calls insert_signature_png and the call raises,
\* the preview stays Active with the same image and the same rectangle.
C3_FailedInsertKeepsPreview ==
    [][(Active /\ apply_signature /\ ~IsNone(call') /\ ~call'.ok)
         => (Active' /\ UNCHANGED <<preview_img, preview_rect>>)]_vars

\* C4: accepting the signature dialog with no ink drawn does not make the
\* preview Active.
C4_BlankCaptureNotActive ==
    [][(~Active /\ sign_here({}, TRUE)) => ~Active']_vars

\* C5: apply_signature in the Active state with a placement rectangle whose
\* intersection with the page pixels is empty makes no insert_signature_png
\* call and leaves the preview Active with image and rectangle unchanged.
C5_OutsidePageKeepsPreview ==
    [][(Active /\ IsEmpty(ToPagePixels(preview_rect)) /\ apply_signature)
         => (IsNone(call') /\ Active' /\ UNCHANGED <<preview_img, preview_rect>>)]_vars

\* C5 witness: the warning of apply_signature is on screen, the preview is
\* still Active and its rectangle misses the page.
C5_Witness ==
    /\ msg = "La firma quedo fuera de la pagina."
    /\ Active
    /\ IsEmpty(ToPagePixels(preview_rect))

C7_CancelResets ==
    [][cancel_signature
         => (/\ IsNone(call')
             /\ ~preview_active' /\ preview_img' = None /\ preview_rect' = None
             /\ ~dragging' /\ resizing' = "None")]_vars

\* the rectangle of a call is non-empty and lies within
\* [0, pm_size.width / render_scale] x [0, pm_size.height / render_scale]
CallRectOnPage(c) ==
    /\ c.rect.den > 0
    /\ c.rect.left < c.rect.right /\ c.rect.top < c.rect.bottom
    /\ c.rect.left >= 0 /\ c.rect.top >= 0
    /\ c.rect.right * render_scale[1] <= pm_size.w * render_scale[2] * c.rect.den
    /\ c.rect.bottom * render_scale[1] <= pm_size.h * render_scale[2] * c.rect.den

\* C8: insert_signature_png is called only by apply_signature in the Active
\* state, with a non-empty page-point rectangle within the page, with the
\* current page index, and the preview is inactive after the call (so at most
\* one call per activation); a successful call leaves the preview inactive.
C8_InsertOnlyFromActiveApply ==
    [][~IsNone(call')
         => (/\ Active
             /\ apply_signature
             /\ call'.page = page_index
             /\ call'.png = EncodePNG(preview_img)
             /\ CallRectOnPage(call')
             /\ ~preview_active')]_vars

\* C8 witness: a successful insert_signature_png call has just been made.
C8_Witness ==
    /\ ~IsNone(call)
    /\ call.ok
    /\ msg = "PDF firmado guardado"
    /\ ~preview_active

\* the edges a resize from the corner leaves alone keep the values of orig
OppositeEdgesKept(corner, orig, r) ==
    /\ corner \in {"tl", "bl"} => Right(r) = Right(orig)
    /\ corner \in {"tr", "br"} => Left(r) = Left(orig)
    /\ corner \in {"tl", "tr"} => Bottom(r) = Bottom(orig)
    /\ corner \in {"bl", "br"} => Top(r) = Top(orig)

\* C9: a resize from a corner moves only that corner's two edges: the two
\* opposite edges keep the values of the rectangle the gesture started from
\* (when that rectangle is inside the page image), also when the minimum
\* size 40 x 20 is enforced.
C9_ResizeKeepsOppositeEdges ==
    [][(/\ preview_active /\ Truthy(preview_rect) /\ resizing # "None"
        /\ Inside(orig_rect, PixRect)
        /\ MoveStep)
         => OppositeEdgesKept(resizing, orig_rect, preview_rect')]_vars

\* the corners of r within Tol of p in both x and y
CornersNear(p, r) == { c \in Corners : Near(p, CornerOf(c, r), Tol * U) }

\* the first of the corners in S in the order tl, tr, bl, br
FirstCorner(S) ==
    IF "tl" \in S THEN "tl" ELSE IF "tr" \in S THEN "tr"
    ELSE IF "bl" \in S THEN "bl" ELSE "br"

\* C10 as stated: with the preview Active, a press within 12 units of a corner
\* starts a resize tagged with that corner; a press inside the rectangle and
\* near no corner starts a drag; any other press starts neither and leaves
\* the rectangle unchanged.
C10_PressAsStated ==
    [][\A q \in PressPts :
         (Active /\ PressStep(q)) =>
            LET p == PosLocal(q[1], q[2])
                near == CornersNear(p, preview_rect)
            IN  /\ \A c \in near : resizing' = c /\ ~dragging'
                /\ (near = {} /\ Contains(preview_rect, p))
                      => (dragging' /\ resizing' = "None")
                /\ (near = {} /\ ~Contains(preview_rect, p))
                      => (~dragging' /\ resizing' = "None"
                          /\ UNCHANGED preview_rect)]_vars

\* C10 amended: the same for a press inside the canvas content rectangle
\* while the rectangle is not null, the resize being tagged with the first
\* corner near the press in the order tl, tr, bl, br; a press outside the
\* content rectangle, or while the rectangle is null, starts neither.
C10_PressInsideCanvas ==
    [][\A q \in PressPts :
         (Active /\ PressStep(q)) =>
            LET p == PosLocal(q[1], q[2])
                near == CornersNear(p, preview_rect)
            IN  /\ UNCHANGED preview_rect
                /\ IF ~InCanvas(p) \/ IsNull(preview_rect)
                   THEN ~dragging' /\ resizing' = "None"
                   ELSE IF near # {}
                   THEN resizing' = FirstCorner(near) /\ ~dragging'
                   ELSE IF Contains(preview_rect, p)
                   THEN dragging' /\ resizing' = "None"
                   ELSE ~dragging' /\ resizing' = "None"]_vars

\* C10 witness: a press within 12 units of the top-right and of the
\* bottom-right corner has started a resize from the top-right corner.
C10_Witness ==
    /\ Active /\ mouse_down
    /\ resizing = "tr" /\ ~dragging
    /\ orig_rect = preview_rect
    /\ {"tr", "br"} \subseteq CornersNear(drag_start, preview_rect)

(***************************************************************************)
(* Properties of the signature dialog.                                     *)
(***************************************************************************)
\* the step is a pointer move on the signature canvas
PadMove ==
    \/ \E q \in SamplePts, e \in Elapsed : mouseMoveEvent(q, e)
    \/ \E q \in SamplePts, tip \in BOOLEAN, e \in Elapsed : tabletEvent("move", q, tip, e)

\* the step is an event that ends the stroke: mouse release, tablet release,
\* tablet move with the pen not down
PadEnd ==
    \/ mouseReleaseEvent("left")
    \/ \E q \in SamplePts, tip \in BOOLEAN, e \in Elapsed : tabletEvent("release", q, tip, e)
    \/ ~pressed /\ \E q \in SamplePts, e \in Elapsed : tabletEvent("move", q, FALSE, e)

\* the step is one _stroke_add call with no _stroke_begin before it in the handler
AddStep == nsamples' = nsamples + 1 /\ nstrokes' = nstrokes

\* dx * dx + dy * dy >= len * len
EuclidAtLeast(p, len) ==
    ~RLess(RAdd(RMul(p.x, p.x), RMul(p.y, p.y)), RMul(len, len))

\* max(1.2 * penWidth, 6) as the documentation states it
StatedMinSegLen == RatMax(RMul(<<6, 5>>, RInt(PenWidth)), RInt(MinSegFloor))

\* C11: a move that arrives with no active stroke changes neither the points,
\* the filter state nor the buffer, unless it begins a stroke first.
C11_MoveNeedsActiveStroke ==
    [][(~stroke_active /\ PadMove)
        => (stroke_active' \/ UNCHANGED <<strokeVars, pad_img>>)]_vars

\* C12: an event that ends the stroke empties the points and the window,
\* forgets the previous raw and smoothed points and leaves the buffer as it is.
C12_EndClearsStrokeKeepsInk ==
    [][PadEnd => /\ points' = << >>
                 /\ raw_prev' = None
                 /\ smooth_prev' = None
                 /\ ma_win' = << >>
                 /\ pad_img' = pad_img]_vars

\* two strokes have ended and the ink of both is in the buffer
C12_Witness ==
    /\ pad_open
    /\ nstrokes = 2
    /\ ~stroke_active
    /\ points = << >> /\ ma_win = << >> /\ raw_prev = None /\ smooth_prev = None
    /\ Cardinality(pad_img.ink) >= 2

\* C13 as stated: with one point accumulated, a smoothed point is appended or
\* ink drawn only at Euclidean distance >= minSegLen from the first point.
C13_EuclideanThreshold ==
    [][(AddStep /\ Len(points) = 1 /\ (points' # points \/ pad_img' # pad_img))
        => EuclidAtLeast(PtSub(last_s', points[1]), StatedMinSegLen)]_vars

\* C13 amended: with one point accumulated, a smoothed point is appended (and
\* the first line drawn) exactly when |dx| + |dy| from the first point is at
\* least minSegLen; otherwise the points and the buffer stay as they are.
C13_ManhattanThreshold ==
    [][(AddStep /\ Len(points) = 1)
        => IF RLess(ManhattanLength(PtSub(last_s', points[1])), StatedMinSegLen)
           THEN points' = points /\ pad_img' = pad_img
           ELSE /\ points' = <<points[1], last_s'>>
                /\ pad_img'.ink = pad_img.ink \cup {LineInk(pad_img, points[1], last_s')}]_vars

\* a first line was drawn to a point closer than minSegLen in Euclidean
\* distance, and an earlier sample of the same stroke was suppressed
C13_Witness ==
    /\ pad_open
    /\ Len(points) = 2
    /\ \E k \in pad_img.ink : k.kind = "line"
    /\ ~EuclidAtLeast(PtSub(points[2], points[1]), StatedMinSegLen)
    /\ ~RLess(ManhattanLength(PtSub(points[2], points[1])), StatedMinSegLen)

\* C14: the first output of the filter after a stroke begins is the raw sample
\* itself; every _stroke_add yields one output, which is appended as exactly
\* one point unless it is suppressed as too close to the first point.
C14_FilterOutputs ==
    [][(nsamples' = nsamples + 1)
        => /\ ~IsNone(last_s')
           /\ Len(ma_win') = Min(MaWindow, (IF nstrokes' = nstrokes THEN Len(ma_win) ELSE 0) + 1)
           /\ (IsNone(raw_prev) \/ nstrokes' # nstrokes) => last_s' = raw_prev'
           /\ \/ points' = Append(IF nstrokes' = nstrokes THEN points ELSE << >>, last_s')
              \/ /\ nstrokes' = nstrokes
                 /\ points' = points /\ Len(points) = 1
                 /\ pad_img' = pad_img
              \/ /\ nstrokes' # nstrokes
                 /\ Len(points') = 1]_vars

\* a stroke of two samples: the first was returned as it came, the second
\* was smoothed, and both became points
C14_Witness ==
    /\ pad_open /\ stroke_active
    /\ Len(points) = 3
    /\ Len(ma_win) = 2
    /\ points[2] = ma_win[1]
    /\ last_s = points[3]
    /\ last_s # raw_prev

\* C20: cancelling the dialog leaves no final image and changes nothing of
\* the preview.
C20_CancelLeavesNoImage ==
    [][reject => /\ png_bytes' = None
                 /\ UNCHANGED prevVars
                 /\ ~pad_open']_vars

\* the dialog was cancelled after strokes had been drawn, with an earlier
\* preview still in place
C20_Witness ==
    /\ ~pad_open
    /\ png_bytes = None
    /\ nstrokes > 0 /\ nsamples > 1
    /\ preview_active /\ preview_img = EarlierImage

(***************************************************************************)
(* Floating-point arithmetic: every operation rounds its exact result to   *)
(* Precision significant bits, ties to the even mantissa.                  *)
(***************************************************************************)
\* a non-negative rational rounded to the nearest integer, ties to even
RoundHalfEven(a) ==
    LET f == a[1] \div a[2]
        r == a[1] % a[2]
    IN  IF 2 * r < a[2] THEN f
        ELSE IF 2 * r > a[2] THEN f + 1
        ELSE IF f % 2 = 0 THEN f ELSE f + 1

RECURSIVE FlAbs(_)
FlAbs(a) ==
    IF a[1] = 0 THEN a
    ELSE IF ~RLess(a, RInt(2 ^ Precision)) THEN RMul(RInt(2), FlAbs(RDiv(a, RInt(2))))
    ELSE IF RLess(a, RInt(2 ^ (Precision - 1))) THEN RDiv(FlAbs(RMul(a, RInt(2))), RInt(2))
    ELSE RInt(RoundHalfEven(a))

\* the floating-point number nearest to the rational a
Fl(a) == IF a[1] < 0 THEN RNeg(FlAbs(RNeg(a))) ELSE FlAbs(a)

FAdd(a, b) == Fl(RAdd(a, b))
FSub(a, b) == Fl(RSub(a, b))
FMul(a, b) == Fl(RMul(a, b))

\* variant of one coordinate with 4 * p1 in the quadratic coefficient
CatmullCoord_four(c0, c1, c2, c3, t) ==
    LET t2 == FMul(t, t)
        t3 == FMul(FMul(t, t), t)
        k1 == FMul(RInt(2), c1)
        k2 == FMul(FAdd(RNeg(c0), c2), t)
        k3 == FMul(FSub(FAdd(FSub(FMul(RInt(2), c0), FMul(RInt(4), c1)),
                             FMul(RInt(4), c2)), c3), t2)
        k4 == FMul(FAdd(FSub(FAdd(RNeg(c0), FMul(RInt(3), c1)),
                             FMul(RInt(3), c2)), c3), t3)
    IN  FMul(<<1, 2>>, FAdd(FAdd(FAdd(k1, k2), k3), k4))

\* _catmull on one coordinate: 0.5 * (2*p1 + (-p0 + p2)*t
\*   + (2*p0 - 5*p1 + 4*p2 - p3)*t2 + (-p0 + 3*p1 - 3*p2 + p3)*t3)
CatmullCoord(c0, c1, c2, c3, t) ==
    LET t2 == FMul(t, t)
        t3 == FMul(FMul(t, t), t)
        k1 == FMul(RInt(2), c1)
        k2 == FMul(FAdd(RNeg(c0), c2), t)
        k3 == FMul(FSub(FAdd(FSub(FMul(RInt(2), c0), FMul(RInt(5), c1)),
                             FMul(RInt(4), c2)), c3), t2)
        k4 == FMul(FAdd(FSub(FAdd(RNeg(c0), FMul(RInt(3), c1)),
                             FMul(RInt(3), c2)), c3), t3)
    IN  FMul(<<1, 2>>, FAdd(FAdd(FAdd(k1, k2), k3), k4))

\* SignatureCanvas._catmull
catmull(p0, p1, p2, p3, t) ==
    PtF(CatmullCoord(p0.x, p1.x, p2.x, p3.x, t), CatmullCoord(p0.y, p1.y, p2.y, p3.y, t))

\* the smoothing factor _ema computes for the sample pt after prev
EmaAlpha(pt, prev, elapsed) == alpha_for(Speed(pt, prev, DtOf(elapsed)))

\* variant that fills the rectangle (scale = max)
PreviewDraw_cover(r, img_w, img_h) ==
    IF img_w > 0 /\ img_h > 0
    THEN LET sx == Rat(r.w, img_w)
             sy == Rat(r.h, img_h)
             scale == RatMax(sx, sy)
             draw_w == RMul(RInt(img_w), scale)
             draw_h == RMul(RInt(img_h), scale)
         IN  [scale |-> scale,
              x |-> RAdd(RInt(r.x), RDiv(RSub(RInt(r.w), draw_w), RInt(2))),
              y |-> RAdd(RInt(r.y), RDiv(RSub(RInt(r.h), draw_h), RInt(2))),
              w |-> draw_w, h |-> draw_h]
    ELSE [drawn |-> FALSE]

\* _draw_canvas: the rectangle the preview image is drawn into (contain fit),
\* in the units of r
PreviewDraw(r, img_w, img_h) ==
    IF img_w > 0 /\ img_h > 0
    THEN LET sx == Rat(r.w, img_w)
             sy == Rat(r.h, img_h)
             scale == RatMin(sx, sy)
             draw_w == RMul(RInt(img_w), scale)
             draw_h == RMul(RInt(img_h), scale)
         IN  [scale |-> scale,
              x |-> RAdd(RInt(r.x), RDiv(RSub(RInt(r.w), draw_w), RInt(2))),
              y |-> RAdd(RInt(r.y), RDiv(RSub(RInt(r.h), draw_h), RInt(2))),
              w |-> draw_w, h |-> draw_h]
    ELSE [drawn |-> FALSE]

(***************************************************************************)
(* The functions evaluated on their own: arg holds the arguments of one    *)
(* call, res its result.                                                   *)
(***************************************************************************)
\* coordinates of control points: 1 and 2 leave every sum of _catmull exact,
\* 13 does not (5 * 13 needs seven bits)
CtrlPts == { PtF(RInt(1), RInt(2)), PtF(RInt(2), RInt(1)), PtF(RInt(13), RInt(13)) }
CtrlTs == { <<0, 1>>, <<1, 2>>, <<1, 1>> }

\* drawing buffers: 7 x 5 pixels with any of three pixels inked
CropImages == { QImage(7, 5, px) : px \in SUBSET { <<1, 1>>, <<3, 2>>, <<5, 4>> } }

\* placement rectangles in 1/U pixel, preview images as width and height
FitRects == { QRectF(6 * U, 6 * U, 300 * U, 100 * U), QRectF(6 * U, 6 * U, 44 * U, 24 * U),
              QRectF(0, 0, 11 * U, 6 * U), NullRect }
FitImages == { [w |-> 600, h |-> 300], [w |-> 40, h |-> 36], [w |-> 300, h |-> 600],
               [w |-> 0, h |-> 0] }

Args ==
    { [f |-> "ema", pt |-> SamplePt(p), prev |-> SamplePt(q), e1 |-> e1, e2 |-> e2] :
        p \in SamplePts, q \in SamplePts, e1 \in 0..MaxElapsed, e2 \in 0..MaxElapsed }
    \cup { [f |-> "catmull", p0 |-> p0, p1 |-> p1, p2 |-> p2, p3 |-> p3, t |-> t] :
        p0 \in CtrlPts, p1 \in CtrlPts, p2 \in CtrlPts, p3 \in CtrlPts, t \in CtrlTs }
    \cup { [f |-> "crop", img |-> im, padding |-> pd] :
        im \in CropImages, pd \in 0..MaxPadding }
    \cup { [f |-> "fit", r |-> r, img |-> im] : r \in FitRects, im \in FitImages }

InitFun ==
    /\ doc = FALSE
    /\ page_index = 0
    /\ cr = InitCanvas
    /\ render_scale = <<1, 1>>
    /\ pm_size = [w |-> 1, h |-> 1]
    /\ sel_start = None
    /\ sel_rect = None
    /\ preview_active = FALSE
    /\ preview_img = None
    /\ preview_rect = None
    /\ dragging = FALSE
    /\ resizing = "None"
    /\ drag_start = None
    /\ orig_rect = None
    /\ mouse_down = FALSE
    /\ call = None
    /\ nzoom = 0
    /\ ngest = 0
    /\ msg = ""
    /\ PadClosed
    /\ arg \in Args
    /\ res = None

FunOnly ==
    UNCHANGED <<viewVars, prevVars, gestVars, mouse_down, histVars, call, msg, padVars, arg>>

\* the alpha of _ema for one spatial delta and two elapsed times
call_ema ==
    /\ arg.f = "ema" /\ IsNone(res)
    /\ res' = [a1 |-> EmaAlpha(arg.pt, arg.prev, arg.e1),
               a2 |-> EmaAlpha(arg.pt, arg.prev, arg.e2)]
    /\ FunOnly

call_catmull ==
    /\ arg.f = "catmull" /\ IsNone(res)
    /\ res' = catmull(arg.p0, arg.p1, arg.p2, arg.p3, arg.t)
    /\ FunOnly

call_crop_alpha_bbox ==
    /\ arg.f = "crop" /\ IsNone(res)
    /\ res' = crop_alpha_bbox(arg.img, arg.padding)
    /\ FunOnly

call_draw_preview ==
    /\ arg.f = "fit" /\ IsNone(res)
    /\ res' = PreviewDraw(arg.r, arg.img.w, arg.img.h)
    /\ FunOnly

NextFun ==
    \/ call_ema
    \/ call_catmull
    \/ call_crop_alpha_bbox
    \/ call_draw_preview

SpecFun == InitFun /\ [][NextFun]_vars

(***************************************************************************)
(* Properties of the functions.                                            *)
(***************************************************************************)
Returned(f) == arg.f = f /\ ~IsNone(res)

\* C15: the smoothing factor lies in [0.14, 0.65], and for one spatial delta
\* the smaller elapsed time (floored at 1) gets the greater or equal factor.
C15_AlphaRangeMonotonic ==
    Returned("ema")
    => /\ RatLE(<<7, 50>>, res.a1) /\ RatLE(res.a1, <<13, 20>>)
       /\ RatLE(<<7, 50>>, res.a2) /\ RatLE(res.a2, <<13, 20>>)
       /\ Max(1, arg.e1) <= Max(1, arg.e2) => RatLE(res.a2, res.a1)

\* the same delta gave a factor strictly inside the range and a greater one
\* at the floor of the elapsed time
C15_Witness ==
    /\ Returned("ema")
    /\ arg.e1 = 0 /\ arg.e2 > 1
    /\ RLess(<<7, 50>>, res.a2) /\ RLess(res.a2, res.a1)

\* C16 as stated: _catmull returns exactly p1 at t = 0 and exactly p2 at t = 1.
C16_ExactEndpoints ==
    Returned("catmull")
    => /\ arg.t = <<0, 1>> => res = arg.p1
       /\ arg.t = <<1, 1>> => res = arg.p2

\* every coordinate is an integer small enough for every sum of the formula
\* (at most 32 times the greatest coordinate) to need no rounding
SmallIntegers(a) ==
    \A p \in {a.p0, a.p1, a.p2, a.p3} :
        /\ p.x[2] = 1 /\ 32 * Abs(p.x[1]) <= 2 ^ Precision
        /\ p.y[2] = 1 /\ 32 * Abs(p.y[1]) <= 2 ^ Precision

\* C16 amended: exactly p1 at t = 0; exactly p2 at t = 1 when the coordinates
\* are integers small enough for no operation to round.
C16_ExactWithoutRounding ==
    Returned("catmull")
    => /\ arg.t = <<0, 1>> => res = arg.p1
       /\ (arg.t = <<1, 1>> /\ SmallIntegers(arg)) => res = arg.p2

\* four small control points, p1 and p2 distinct, evaluated at t = 1
C16_Witness ==
    /\ Returned("catmull")
    /\ arg.t = <<1, 1>> /\ SmallIntegers(arg)
    /\ arg.p1 # arg.p2 /\ arg.p0 # arg.p3 /\ res = arg.p2

\* C17: cropping the result of a crop again with the same padding returns
\* the same width, height and pixels.
C17_CropIdempotent ==
    Returned("crop") => crop_alpha_bbox(res, arg.padding) = res

\* a crop that cut the image down on a side the padding did not reach
C17_Witness ==
    /\ Returned("crop")
    /\ arg.padding > 0
    /\ res.px # {}
    /\ res.w < arg.img.w /\ res.h < arg.img.h

\* C18: an image with no pixel of alpha > 0 is returned unchanged.
C18_TransparentUnchanged ==
    (Returned("crop") /\ arg.img.px = {})
    => (res = arg.img /\ res.w = arg.img.w /\ res.h = arg.img.h)

C18_Witness ==
    /\ Returned("crop")
    /\ arg.img.px = {} /\ arg.img.w > 0 /\ arg.padding > 0
    /\ res.w = 7 /\ res.h = 5

\* C19: the preview is drawn at scale min(W/w, H/h), with the image's aspect
\* ratio, inside the placement rectangle and centred on both axes; 600 x 300
\* in 300 x 100 is drawn 200 x 100 at x offset 50.
C19_ContainFit ==
    (Returned("fit") /\ arg.img.w > 0 /\ arg.img.h > 0)
    => /\ res.scale = RatMin(Rat(arg.r.w, arg.img.w), Rat(arg.r.h, arg.img.h))
       /\ res.w = RMul(RInt(arg.img.w), res.scale)
       /\ res.h = RMul(RInt(arg.img.h), res.scale)
       /\ RMul(res.w, RInt(arg.img.h)) = RMul(res.h, RInt(arg.img.w))
       /\ RatLE(RInt(arg.r.x), res.x)
       /\ RatLE(RAdd(res.x, res.w), RInt(arg.r.x + arg.r.w))
       /\ RatLE(RInt(arg.r.y), res.y)
       /\ RatLE(RAdd(res.y, res.h), RInt(arg.r.y + arg.r.h))
       /\ RSub(res.x, RInt(arg.r.x)) = RSub(RInt(arg.r.x + arg.r.w), RAdd(res.x, res.w))
       /\ RSub(res.y, RInt(arg.r.y)) = RSub(RInt(arg.r.y + arg.r.h), RAdd(res.y, res.h))
       /\ (arg.img = [w |-> 600, h |-> 300] /\ arg.r.w = 300 * U /\ arg.r.h = 100 * U)
          => /\ res.w = RInt(200 * U)
             /\ res.h = RInt(100 * U)
             /\ RSub(res.x, RInt(arg.r.x)) = RInt(50 * U)

\* the 600 x 300 image drawn in the 300 x 100 rectangle at (6, 6)
C19_Witness ==
    /\ Returned("fit")
    /\ arg.img = [w |-> 600, h |-> 300]
    /\ arg.r = QRectF(6 * U, 6 * U, 300 * U, 100 * U)
    /\ res.x = RInt(56 * U) /\ res.y = RInt(6 * U)

(***************************************************************************)
(* Further properties of the crop.                                         *)
(***************************************************************************)
\* C21: for an image with ink and a padding p >= 0 the crop is the sub-image
\* [max(0, minx-p), min(w-1, maxx+p)] x [max(0, miny-p), min(h-1, maxy+p)]:
\* every inked pixel is in it and it stays within the image.
C21_CropIsPaddedBox ==
    (Returned("crop") /\ arg.img.px # {})
    => LET xs == { p[1] : p \in arg.img.px }
           ys == { p[2] : p \in arg.img.px }
           x0 == Max(0, SetMin(xs) - arg.padding)
           x1 == Min(arg.img.w - 1, SetMax(xs) + arg.padding)
           y0 == Max(0, SetMin(ys) - arg.padding)
           y1 == Min(arg.img.h - 1, SetMax(ys) + arg.padding)
       IN  /\ res.w = x1 - x0 + 1
           /\ res.h = y1 - y0 + 1
           /\ res.px = { <<p[1] - x0, p[2] - y0>> : p \in arg.img.px }
           /\ \A q \in res.px : q[1] >= 0 /\ q[1] < res.w /\ q[2] >= 0 /\ q[2] < res.h
           /\ Cardinality(res.px) = Cardinality(arg.img.px)
           /\ x0 >= 0 /\ y0 >= 0 /\ x1 <= arg.img.w - 1 /\ y1 <= arg.img.h - 1
           /\ res.w <= arg.img.w /\ res.h <= arg.img.h

\* a crop clamped at the left and top edges and not at the right and bottom
C21_Witness ==
    /\ Returned("crop")
    /\ arg.img.px = { <<1, 1>>, <<3, 2>> }
    /\ arg.padding = 2
    /\ res.w = 6 /\ res.h = 5
    /\ res.px = { <<1, 1>>, <<3, 2>> }

(***************************************************************************)
(* Further properties of the signature canvas.                             *)
(***************************************************************************)
\* the step is a _stroke_add call that appended its point to the stroke
AcceptStep == AddStep /\ Len(points') = Len(points) + 1

ScaledAboutCentre(r, delta) ==
    LET w2 == (r.w * WheelNum(delta)) \div WheelDen
        h2 == (r.h * WheelNum(delta)) \div WheelDen
        cx2 == r.x + r.x + r.w
        cy2 == r.y + r.y + r.h
    IN  [x |-> (cx2 - w2) \div 2, y |-> (cy2 - h2) \div 2, w |-> w2, h |-> h2]

\* C23: a wheel step changes the placement rectangle only when the preview is
\* Active and the pointer is inside the rectangle; the new rectangle is then
\* the intersection of the page image's bounds with the rectangle scaled by
\* 1 + 0.0015 * delta about the old centre; otherwise the rectangle and the
\* rest of the controller's state stay as they are.
C23_WheelZoom ==
    [][\A q \in WheelPts, d \in WheelDeltas :
          wheel_event(q[1], q[2], d) =>
             /\ IF /\ preview_active
                   /\ ~IsNone(preview_rect)
                   /\ Contains(preview_rect, PosLocal(q[1], q[2]))
                THEN preview_rect' =
                        Intersected(ScaledAboutCentre(preview_rect, d),
                                    QRectF(XOff(cr, pm_size), YOff(cr, pm_size),
                                           pm_size.w * U, pm_size.h * U))
                ELSE preview_rect' = preview_rect
             /\ UNCHANGED <<viewVars, preview_active, preview_img, gestVars, mouse_down>>]_vars

\* an Active preview enlarged by one wheel step and cut at the page's left edge
C23_Witness ==
    /\ nzoom = 1
    /\ preview_active
    /\ ~IsNone(preview_rect)
    /\ preview_rect.w > 44 * U
    /\ preview_rect.x = XOff(cr, pm_size)

\* the buffer im holds ink drawn from the stroke's point a to its point b
Connected(im, a, b) ==
    \E k \in im.ink :
       \/ k.kind = "line" /\ k.a = ToBuf(im, a) /\ k.b = ToBuf(im, b)
       \/ k.kind = "spline" /\ k.p1 = ToBuf(im, a) /\ k.p2 = ToBuf(im, b)

\* C24: when a stroke of n >= 2 points ends, every consecutive pair of its
\* points, the last pair included, has been connected by drawn ink.
C24_AllPairsDrawn ==
    [][(PadEnd /\ Len(points) >= 2) =>
          \A i \in 1..(Len(points) - 1) :
             Connected(pad_img', points[i], points[i + 1])]_vars

\* C25: the controller never drags and resizes at once, a drag or a resize is
\* in progress only while the preview is Active, and every pointer release
\* leaves neither in progress.
C25_GestureOnlyWhileActive ==
    [][/\ ~(dragging' /\ resizing' # "None")
       /\ (dragging' \/ resizing' # "None") => preview_active'
       /\ end_sel => (~dragging' /\ resizing' = "None")]_vars

\* the step is a _stroke_add call whose point the minimum-segment test dropped
SuppressedStep == AddStep /\ Len(points) = 1 /\ points' = points

\* C26: a sample suppressed by the minimum-segment test is a no-op: it leaves
\* the points, the buffer and the filter memory (raw previous, smoothed
\* previous, moving-average window) as they were.
C26_SuppressedIsNoOp ==
    [][SuppressedStep =>
          UNCHANGED <<points, pad_img, raw_prev, smooth_prev, ma_win>>]_vars

\* C26, as the code has it: a suppressed sample leaves the points and the
\* buffer as they were, but it has gone through the filter: the raw previous
\* is the sample, the smoothed previous is the filter's new EMA value and the
\* window has that value appended; an accepted point is the mean of the
\* window, suppressed samples' values included.
C26_SuppressedFeedsFilter ==
    [][/\ SuppressedStep =>
             /\ UNCHANGED <<points, pad_img>>
             /\ \E q \in SamplePts : raw_prev' = SamplePt(q)
             /\ ~IsNone(smooth_prev')
             /\ Len(ma_win') = Min(Len(ma_win) + 1, MaWindow)
             /\ ma_win'[Len(ma_win')] = smooth_prev'
             /\ \A i \in 1..(Len(ma_win') - 1) :
                   ma_win'[i] = ma_win[i + Len(ma_win) + 1 - Len(ma_win')]
       /\ AcceptStep =>
             LET n == Len(ma_win')
             IN  /\ n >= 1
                 /\ RMul(points'[Len(points')].x, RInt(n)) = SumX(ma_win')
                 /\ RMul(points'[Len(points')].y, RInt(n)) = SumY(ma_win')]_vars

\* the second point of a stroke accepted after a suppressed sample: the window
\* holds the suppressed sample's value and the point is not the raw sample
C26_Witness ==
    /\ stroke_active
    /\ Len(points) = 2
    /\ Len(ma_win) = 2
    /\ ma_win[1] = points[1]
    /\ points[2] # raw_prev
    /\ points[2] # smooth_prev

\* C27: the offset at which a raster is displayed centred in its canvas is the
\* offset used to map canvas coordinates to the raster: for the rendered page
\* in the viewer and for the drawing buffer in the signature canvas.
C27_DisplayOffsetIsMapOffset ==
    /\ (doc /\ pm_size # [w |-> 1, h |-> 1]) =>
          /\ DrawXOff(cr, pm_size) = XOff(cr, pm_size)
          /\ DrawYOff(cr, pm_size) = YOff(cr, pm_size)
    /\ ~IsNone(pad_img) =>
          /\ PaintXOff(pad_img) = PadXOff(pad_img)
          /\ PaintYOff(pad_img) = PadYOff(pad_img)

=============================================================================
